---- MODULE Spec2Model ----
(***************************************************************************)
(* The payment-gated job lifecycle of src/main.py: start_job,              *)
(* handle_payment_status (reached through start_job.payment_callback) and  *)
(* get_status, over the two process-wide tables jobs and                   *)
(* payment_instances.                                                      *)
(*                                                                         *)
(* The service runs on one asyncio event loop, so the code between two     *)
(* suspension points is one atomic action.  The suspension points are the  *)
(* awaited payment-provider calls: create_payment_request (line 124),      *)
(* complete_payment (line 204) and check_payment_status (line 242).        *)
(* execute_crew_task (lines 80-86) is a coroutine without any await in its *)
(* body (crew.kickoff is a plain call), so awaiting it never yields: the   *)
(* executor runs inside the step that sets status to running.              *)
(*                                                                         *)
(* The payment provider and the task executor are the environment: every   *)
(* outcome they can produce is a nondeterministic choice.  A confirmation  *)
(* signal is a call of the callback registered at line 145; the provider   *)
(* may deliver it any number of times once the callback is registered.     *)
(***************************************************************************)
EXTENDS Integers, Sequences, FiniteSets, TLC

\* ---- bounds of the model -------------------------------------------------
NumIds == 2          \* job ids uuid4() hands out in one run
MaxSignals == 2      \* confirmation signals the provider delivers in one run
MaxChecks == 1       \* check_payment_status queries sent in one run

\* ---- program constant ----------------------------------------------------
MIN_TEXT_LEN == 5

JobIds == 1..NumIds

\* ---- request payloads ----------------------------------------------------
\* input_data: absent from the request, or a dict that may hold "text";
\* a text is a sequence of characters.
Payload(present, has_text, text) ==
    [present |-> present, has_text |-> has_text, text |-> text]

MissingInput == Payload(FALSE, FALSE, <<>>)
EmptyText == Payload(TRUE, TRUE, <<>>)
PaddedShortText == Payload(TRUE, TRUE, <<" ", "a", "b", "c", "d", " ">>)
ExactText == Payload(TRUE, TRUE, <<"a", "b", "c", "d", "e">>)
PaddedText == Payload(TRUE, TRUE, <<" ", "v", "w", "x", "y", "z", " ">>)

Payloads ==
    {MissingInput, EmptyText, PaddedShortText, ExactText, PaddedText}

Requesters == {"alice"}

\* ---- values of the collaborators -----------------------------------------
\* what crew.kickoff can return: a CrewOutput (has .raw) or a plain string
CrewOutput(t) == [kind |-> "CrewOutput", val |-> t]
PlainStr(t) == [kind |-> "str", val |-> t]
None == [kind |-> "None", val |-> ""]

ExecReturns == {CrewOutput("GDP grew 2%"), PlainStr("plain")}
ExecErrors == {"timeout", ""}
FulfilErrors == {"declined"}

\* the blockchain identifier the provider hands out for its n-th demand
Ref(n) == 100 + n

\* status.get("data", {}).get("status") of a check_payment_status answer
ProviderStatuses == {"pending", "confirmed"}

RECURSIVE SumOver(_, _)
SumOver(f, S) ==
    IF S = {} THEN 0
    ELSE LET x == CHOOSE y \in S : TRUE IN f[x] + SumOver(f, S \ {x})

Total(f) == SumOver(f, DOMAIN f)

NoError == [present |-> FALSE, msg |-> ""]
Err(m) == [present |-> TRUE, msg |-> m]

VARIABLES
    jobs,               \* main.py:37   job_id -> job record
    payment_instances,  \* main.py:38   job ids that have a Payment entry
    watching,           \* job ids whose callback the provider holds (line 145)
    next_id,            \* the next id uuid4() returns (line 97)
    starting,           \* start_job calls suspended at line 124
    handlers,           \* handle_payment_status calls suspended at line 204
    gets,               \* get_status calls suspended at line 242, per job
    signals,            \* confirmation signals delivered, per job
    execCalls,          \* execute_crew_task invocations, per job
    fulfilCalls,        \* complete_payment invocations, per job
    checkCalls,         \* check_payment_status invocations
    execInputs,         \* the inputs execute_crew_task was called with, per job
    fulfilLog,          \* the arguments of the complete_payment calls, per job
    fulfilOk,           \* those of the calls that returned, per job
    event               \* the step just taken and the response it produced

vars == <<jobs, payment_instances, watching, next_id, starting, handlers,
          gets, signals, execCalls, fulfilCalls, checkCalls, execInputs,
          fulfilLog, fulfilOk, event>>

NoView == [present |-> FALSE, val |-> ""]

NoEvent ==
    [op |-> "init", job |-> 0, kind |-> "none", call |-> "none",
     input |-> MissingInput, ref |-> 0, status |-> "", payment_status |-> "",
     result |-> NoView, error |-> NoError, cleanup |-> "none"]

Ev(op, job, kind, call) ==
    [NoEvent EXCEPT !.op = op, !.job = job, !.kind = kind, !.call = call]

\* ---- StartJobRequest (lines 51-62) ---------------------------------------
IsSpace(c) == c = " "

RECURSIVE lstrip(_)
lstrip(s) ==
    IF s = <<>> THEN <<>>
    ELSE IF IsSpace(Head(s)) THEN lstrip(Tail(s)) ELSE s

RECURSIVE rstrip(_)
rstrip(s) ==
    IF s = <<>> THEN <<>>
    ELSE IF IsSpace(s[Len(s)]) THEN rstrip(SubSeq(s, 1, Len(s) - 1)) ELSE s

strip(s) == rstrip(lstrip(s))

validate_input_data_unstripped(v) ==
    /\ v.present
    /\ v.has_text
    /\ v.text # <<>>
    /\ Len(v.text) >= MIN_TEXT_LEN

\* TRUE when the validator returns v, FALSE when it raises
validate_input_data(v) ==
    /\ v.present
    /\ v.has_text
    /\ v.text # <<>>
    /\ Len(strip(v.text)) >= MIN_TEXT_LEN

\* identifier_from_purchaser: Field(..., min_length=1)
validate_identifier(r) == r # ""

StartJobRequest(r, v) == validate_identifier(r) /\ validate_input_data(v)

Init ==
    /\ jobs = <<>>
    /\ payment_instances = {}
    /\ watching = {}
    /\ next_id = 1
    /\ starting = {}
    /\ handlers = {}
    /\ gets = [j \in JobIds |-> 0]
    /\ signals = [j \in JobIds |-> 0]
    /\ execCalls = [j \in JobIds |-> 0]
    /\ fulfilCalls = [j \in JobIds |-> 0]
    /\ checkCalls = 0
    /\ execInputs = [j \in JobIds |-> {}]
    /\ fulfilLog = [j \in JobIds |-> {}]
    /\ fulfilOk = [j \in JobIds |-> {}]
    /\ event = NoEvent

\* ---- start_job (lines 91-179) --------------------------------------------
\* the record stored at lines 130-137; the "error" key is absent
NewJobRecordRunning(ref, r, v) ==
    [status |-> "running", payment_status |-> "pending",
     blockchain_identifier |-> ref, input_data |-> v, result |-> None,
     error |-> NoError, identifier_from_purchaser |-> r]

NewJobRecord(ref, r, v) ==
    [status |-> "awaiting_payment", payment_status |-> "pending",
     blockchain_identifier |-> ref, input_data |-> v, result |-> None,
     error |-> NoError, identifier_from_purchaser |-> r]

Store(tbl, j, rec) ==
    [k \in DOMAIN tbl \cup {j} |-> IF k = j THEN rec ELSE tbl[k]]

\* the except clauses of lines 162-179
HttpError(exc) ==
    IF exc \in {"ValueError", "KeyError"} THEN "http400" ELSE "http500"

\* the provider numbers its demands: the next identifier it returns
NextRef == Ref(Cardinality(DOMAIN jobs) + 1)

\* pydantic rejects the request before the body of start_job runs
start_job_rejected(r, v) ==
    /\ ~StartJobRequest(r, v)
    /\ event' = [Ev("start_job", 0, "ValidationError", "none")
                    EXCEPT !.input = v]
    /\ UNCHANGED <<jobs, payment_instances, watching, next_id, starting,
                   handlers, gets, signals, execCalls, fulfilCalls, checkCalls,
                   execInputs, fulfilLog, fulfilOk>>

\* lines 94-124: a fresh job_id, then the call of create_payment_request
start_job_call(r, v) ==
    /\ StartJobRequest(r, v)
    /\ next_id <= NumIds
    /\ starting' = starting \cup
                      {[job |-> next_id, requester |-> r, input |-> v]}
    /\ next_id' = next_id + 1
    /\ event' = [Ev("start_job_call", next_id, "pending", "create")
                    EXCEPT !.input = v]
    /\ UNCHANGED <<jobs, payment_instances, watching, handlers, gets,
                   signals, execCalls, fulfilCalls, checkCalls,
                   execInputs, fulfilLog, fulfilOk>>

start_job_demand_failed_partial(c, exc) ==
    /\ starting' = starting \ {c}
    /\ jobs' = Store(jobs, c.job, NewJobRecord(0, c.requester, c.input))
    /\ event' = [Ev("start_job", c.job, HttpError(exc), "create_failed")
                    EXCEPT !.input = c.input]
    /\ UNCHANGED <<payment_instances, watching, next_id, handlers, gets,
                   signals, execCalls, fulfilCalls, checkCalls,
                   execInputs, fulfilLog, fulfilOk>>

\* line 124 raises (ValueError or another exception), or line 125 finds no
\* blockchainIdentifier in the answer (KeyError): lines 162-179
start_job_demand_failed(c, exc) ==
    /\ starting' = starting \ {c}
    /\ event' = [Ev("start_job", c.job, HttpError(exc), "create_failed")
                    EXCEPT !.input = c.input]
    /\ UNCHANGED <<jobs, payment_instances, watching, next_id, handlers,
                   gets, signals, execCalls, fulfilCalls, checkCalls,
                   execInputs, fulfilLog, fulfilOk>>

\* lines 125-161: the demand exists.  monitor_ok: start_status_monitoring
\* returns (it raises otherwise); timing_ok: the answer holds the timing
\* fields read at lines 152-160 (KeyError otherwise).
start_job_created(c, ref, monitor_ok, timing_ok) ==
    /\ starting' = starting \ {c}
    /\ jobs' = Store(jobs, c.job, NewJobRecord(ref, c.requester, c.input))
    /\ payment_instances' = payment_instances \cup {c.job}
    /\ watching' = IF monitor_ok THEN watching \cup {c.job} ELSE watching
    /\ event' = [Ev("start_job", c.job,
                    IF ~monitor_ok THEN HttpError("Exception")
                    ELSE IF ~timing_ok THEN HttpError("KeyError")
                    ELSE "ok",
                    "create_ok")
                    EXCEPT !.input = c.input, !.ref = ref]
    /\ UNCHANGED <<next_id, handlers, gets, signals, execCalls, fulfilCalls,
                   checkCalls,
                   execInputs, fulfilLog, fulfilOk>>

start_job_resume(c) ==
    \/ \E exc \in {"ValueError", "KeyError", "Exception"} :
          start_job_demand_failed(c, exc)
    \/ \E monitor_ok \in BOOLEAN, timing_ok \in BOOLEAN :
          start_job_created(c, NextRef, monitor_ok, timing_ok)

\* ---- handle_payment_status (lines 184-224) -------------------------------
hasattr_raw(x) == x.kind = "CrewOutput"

\* line 200
ResultString(result) == IF hasattr_raw(result) THEN result.val ELSE result.val

JobCompletedFresh(rec, result) ==
    [rec EXCEPT !.status = "completed", !.payment_status = "completed",
                !.result = result, !.input_data = MissingInput]

\* lines 207-210
JobCompleted(rec, result) ==
    [rec EXCEPT !.status = "completed", !.payment_status = "completed",
                !.result = result]

\* lines 218-219
JobFailed(rec, msg) ==
    [rec EXCEPT !.status = "failed", !.error = Err(msg)]

keep_instance(pi, job_id) == pi

has_instance_unchecked(pi, job_id) == TRUE

\* lines 213 and 222: if job_id in payment_instances
has_instance(pi, job_id) == job_id \in pi

\* lines 215 and 224: del payment_instances[job_id] raises KeyError for a
\* key that is not there
del_raises(pi, job_id) == job_id \notin pi

\* lines 212-215 and 221-224: how the stop-and-remove step ends
cleanup(pi, job_id) ==
    IF has_instance(pi, job_id) /\ del_raises(pi, job_id)
    THEN "KeyError" ELSE "ok"

\* a handler step that ran the stop-and-remove step
HandlerEv(job_id, kind, call) ==
    [Ev("handle_payment_status", job_id, kind, call)
        EXCEPT !.cleanup = cleanup(payment_instances, job_id)]

\* lines 212-215
stop_and_remove(pi, job_id) == pi \ {job_id}

\* lines 221-224
stop_and_remove_on_error(pi, job_id) == pi \ {job_id}

\* lines 186-194 and 216-224: the executor raises
handler_exec_failed(job_id, msg) ==
    /\ jobs' = [jobs EXCEPT ![job_id] = JobFailed(@, msg)]
    /\ payment_instances' = stop_and_remove_on_error(payment_instances, job_id)
    /\ execCalls' = [execCalls EXCEPT ![job_id] = @ + 1]
    /\ event' = HandlerEv(job_id, "failed", "execute")
    /\ execInputs' = [execInputs EXCEPT
                       ![job_id] = @ \cup {jobs[job_id].input_data}]
    /\ UNCHANGED <<handlers, fulfilCalls, checkCalls, fulfilLog, fulfilOk>>

\* lines 186-204 and 216-224: the executor returns, and
\* payment_instances[job_id] at line 204 raises KeyError
handler_no_instance(job_id, result) ==
    /\ job_id \notin payment_instances
    /\ jobs' = [jobs EXCEPT ![job_id] = JobFailed(@, "KeyError")]
    /\ payment_instances' = stop_and_remove_on_error(payment_instances, job_id)
    /\ execCalls' = [execCalls EXCEPT ![job_id] = @ + 1]
    /\ event' = HandlerEv(job_id, "failed", "execute")
    /\ execInputs' = [execInputs EXCEPT
                       ![job_id] = @ \cup {jobs[job_id].input_data}]
    /\ UNCHANGED <<handlers, fulfilCalls, checkCalls, fulfilLog, fulfilOk>>

\* lines 186-204: the executor returns and complete_payment is called
handler_fulfil_call(job_id, payment_id, n, result) ==
    /\ job_id \in payment_instances
    /\ jobs' = [jobs EXCEPT ![job_id].status = "running"]
    /\ execCalls' = [execCalls EXCEPT ![job_id] = @ + 1]
    /\ fulfilCalls' = [fulfilCalls EXCEPT ![job_id] = @ + 1]
    /\ handlers' = handlers \cup
                      {[job |-> job_id, payment_id |-> payment_id, n |-> n,
                        result |-> result,
                        payload |-> ResultString(result)]}
    /\ execInputs' = [execInputs EXCEPT
                       ![job_id] = @ \cup {jobs[job_id].input_data}]
    /\ fulfilLog' = [fulfilLog EXCEPT
                      ![job_id] = @ \cup {[payment_id |-> payment_id,
                                           payload |-> ResultString(result)]}]
    /\ event' = Ev("handle_payment_status", job_id, "running", "fulfil")
    /\ UNCHANGED <<payment_instances, checkCalls, fulfilOk>>

handle_payment_status(job_id, payment_id, n) ==
    \/ \E msg \in ExecErrors : handler_exec_failed(job_id, msg)
    \/ \E result \in ExecReturns : handler_no_instance(job_id, result)
    \/ \E result \in ExecReturns :
          handler_fulfil_call(job_id, payment_id, n, result)

\* the job the closure of lines 139-140 is bound to
CallbackJobLatest(j) == next_id - 1

CallbackJob(j) == j

\* the provider delivers a confirmation signal for the payment of job j:
\* it calls the callback registered at line 145
payment_callback(j) ==
    /\ j \in watching
    /\ Total(signals) < MaxSignals
    /\ CallbackJob(j) \in DOMAIN jobs
    /\ signals' = [signals EXCEPT ![j] = @ + 1]
    /\ handle_payment_status(CallbackJob(j), jobs[j].blockchain_identifier,
                             signals[j] + 1)
    /\ UNCHANGED <<watching, next_id, starting, gets>>

\* lines 205-215: complete_payment returned
handler_fulfilled(h) ==
    /\ h \in handlers
    /\ handlers' = handlers \ {h}
    /\ jobs' = [jobs EXCEPT
                   ![h.job] = IF cleanup(payment_instances, h.job) = "ok"
                              THEN JobCompleted(@, h.result)
                              ELSE JobFailed(JobCompleted(@, h.result),
                                             "KeyError")]
    /\ payment_instances' = stop_and_remove(payment_instances, h.job)
    /\ event' = HandlerEv(h.job,
                          IF cleanup(payment_instances, h.job) = "ok"
                          THEN "completed" ELSE "failed",
                          "none")
    /\ UNCHANGED <<watching, next_id, starting, gets, signals, execCalls,
                   fulfilCalls, checkCalls,
                   execInputs, fulfilLog>>
    /\ fulfilOk' = [fulfilOk EXCEPT
                     ![h.job] = @ \cup {[payment_id |-> h.payment_id,
                                         payload |-> h.payload]}]

\* lines 204 and 216-224: complete_payment raised
handler_fulfil_failed(h, msg) ==
    /\ h \in handlers
    /\ handlers' = handlers \ {h}
    /\ jobs' = [jobs EXCEPT ![h.job] = JobFailed(@, msg)]
    /\ payment_instances' = stop_and_remove_on_error(payment_instances, h.job)
    /\ event' = HandlerEv(h.job, "failed", "none")
    /\ UNCHANGED <<watching, next_id, starting, gets, signals, execCalls,
                   fulfilCalls, checkCalls,
                   execInputs, fulfilLog, fulfilOk>>

\* ---- get_status (lines 229-264) ------------------------------------------
truthy(x) == x.kind = "CrewOutput" \/ (x.kind = "str" /\ x.val # "")

\* line 255
ResponseResult(result_data) ==
    IF truthy(result_data) /\ hasattr_raw(result_data)
    THEN [present |-> TRUE, val |-> result_data.val]
    ELSE NoView

\* lines 259-264: job_id, status, payment_status, result; no "error" key
StatusResponse(job_id, rec, call) ==
    [Ev("get_status", job_id, "ok", call)
        EXCEPT !.status = rec.status, !.payment_status = rec.payment_status,
               !.result = ResponseResult(rec.result)]

get_status_unknown_keyerror(job_id) ==
    /\ job_id \notin DOMAIN jobs
    /\ event' = Ev("get_status", job_id, "http500", "none")
    /\ UNCHANGED <<jobs, payment_instances, watching, next_id, starting,
                   handlers, gets, signals, execCalls, fulfilCalls, checkCalls,
                   execInputs, fulfilLog, fulfilOk>>

\* lines 233-235
get_status_unknown(job_id) ==
    /\ job_id \notin DOMAIN jobs
    /\ event' = Ev("get_status", job_id, "NotFoundError", "none")
    /\ UNCHANGED <<jobs, payment_instances, watching, next_id, starting,
                   handlers, gets, signals, execCalls, fulfilCalls, checkCalls,
                   execInputs, fulfilLog, fulfilOk>>

get_status_no_monitor_refresh(job_id) ==
    /\ job_id \in DOMAIN jobs
    /\ job_id \notin payment_instances
    /\ jobs' = [jobs EXCEPT ![job_id].payment_status = "unknown"]
    /\ event' = StatusResponse(job_id, jobs'[job_id], "none")
    /\ UNCHANGED <<payment_instances, watching, next_id, starting,
                   handlers, gets, signals, execCalls, fulfilCalls, checkCalls,
                   execInputs, fulfilLog, fulfilOk>>

\* lines 237-240 and 253-264: no Payment entry, no provider query
get_status_no_monitor(job_id) ==
    /\ job_id \in DOMAIN jobs
    /\ job_id \notin payment_instances
    /\ event' = StatusResponse(job_id, jobs[job_id], "none")
    /\ UNCHANGED <<jobs, payment_instances, watching, next_id, starting,
                   handlers, gets, signals, execCalls, fulfilCalls, checkCalls,
                   execInputs, fulfilLog, fulfilOk>>

\* lines 237-242: the live query is sent
get_status_check(job_id) ==
    /\ job_id \in DOMAIN jobs
    /\ job_id \in payment_instances
    /\ checkCalls < MaxChecks
    /\ gets' = [gets EXCEPT ![job_id] = @ + 1]
    /\ checkCalls' = checkCalls + 1
    /\ event' = Ev("get_status_call", job_id, "pending", "check")
    /\ UNCHANGED <<jobs, payment_instances, watching, next_id, starting,
                   handlers, signals, execCalls, fulfilCalls,
                   execInputs, fulfilLog, fulfilOk>>

CheckOutcomes ==
    [exc : {"none"}, status : ProviderStatuses]
        \cup [exc : {"ValueError", "Exception"}, status : {""}]

\* lines 243-250
PaymentStatusAfterCheck(o) ==
    IF o.exc = "none" THEN o.status
    ELSE IF o.exc = "ValueError" THEN "unknown"
    ELSE "error"

get_status_resume_expiring(job_id, o) ==
    /\ gets[job_id] > 0
    /\ gets' = [gets EXCEPT ![job_id] = @ - 1]
    /\ jobs' = [jobs EXCEPT
                   ![job_id].payment_status = PaymentStatusAfterCheck(o),
                   ![job_id].status = IF o.exc = "none" THEN @ ELSE "failed"]
    /\ payment_instances' = IF o.exc = "none" THEN payment_instances
                            ELSE payment_instances \ {job_id}
    /\ event' = StatusResponse(job_id, jobs'[job_id],
                               IF o.exc = "none" THEN "checked"
                               ELSE o.exc)
    /\ UNCHANGED <<watching, next_id, starting, handlers,
                   signals, execCalls, fulfilCalls, checkCalls,
                   execInputs, fulfilLog, fulfilOk>>

\* lines 242-264: the live query returned or raised
get_status_resume(job_id, o) ==
    /\ gets[job_id] > 0
    /\ gets' = [gets EXCEPT ![job_id] = @ - 1]
    /\ jobs' = [jobs EXCEPT
                   ![job_id].payment_status = PaymentStatusAfterCheck(o)]
    /\ event' = StatusResponse(job_id, jobs'[job_id],
                               IF o.exc = "none" THEN "checked"
                               ELSE o.exc)
    /\ UNCHANGED <<payment_instances, watching, next_id, starting, handlers,
                   signals, execCalls, fulfilCalls, checkCalls,
                   execInputs, fulfilLog, fulfilOk>>

get_status(job_id) ==
    \/ get_status_unknown(job_id)
    \/ get_status_no_monitor(job_id)
    \/ get_status_check(job_id)

\* ---- specification -------------------------------------------------------
Next ==
    \/ \E r \in Requesters, v \in Payloads : start_job_rejected(r, v)
    \/ \E r \in Requesters, v \in Payloads : start_job_call(r, v)
    \/ \E c \in starting : start_job_resume(c)
    \/ \E j \in JobIds : payment_callback(j)
    \/ \E h \in handlers : handler_fulfilled(h)
    \/ \E h \in handlers, msg \in FulfilErrors : handler_fulfil_failed(h, msg)
    \/ \E j \in JobIds : get_status(j)
    \/ \E j \in JobIds, o \in CheckOutcomes : get_status_resume(j, o)

Spec == Init /\ [][Next]_vars

\* the complete_payment call of a handler of job j returns or raises
complete_payment_returns(j) ==
    \E h \in handlers :
        /\ h.job = j
        /\ \/ handler_fulfilled(h)
           \/ \E msg \in FulfilErrors : handler_fulfil_failed(h, msg)

\* every awaited complete_payment call eventually returns or raises, and
\* the event loop then resumes the handler
FairSpec ==
    Spec /\ \A j \in JobIds : WF_vars(complete_payment_returns(j))

\* ---- properties ----------------------------------------------------------
Terminal(st) == st \in {"completed", "failed"}

Rank(st) ==
    CASE st = "awaiting_payment" -> 0
      [] st = "running" -> 1
      [] OTHER -> 2

ResultSet(rec) == rec.result # None
ErrorSet(rec) == rec.error.present

\* C1: for every job the Task Executor is invoked at most once, however many
\* confirmation signals the provider delivers for the job.
C1_ExecutorAtMostOnce ==
    \A j \in JobIds : execCalls[j] <= 1

\* C2: the Task Executor has never been invoked for a job for which no
\* confirmation signal has been delivered.
C2_NoExecutionWithoutConfirmation ==
    \A j \in JobIds : signals[j] = 0 => execCalls[j] = 0

\* a job that was created and queried but never confirmed, next to a job
\* that was confirmed and executed
C2_Witness ==
    \E j, k \in DOMAIN jobs :
        /\ j # k
        /\ signals[j] = 0
        /\ checkCalls > 0
        /\ signals[k] > 0
        /\ execCalls[k] > 0

\* C3: every change of a job's status goes forward along
\* awaiting_payment -> running -> completed | failed, and a completed or
\* failed job keeps its status.
C3_StatusMonotonic ==
    [][\A j \in DOMAIN jobs :
          /\ Rank(jobs'[j].status) >= Rank(jobs[j].status)
          /\ Terminal(jobs[j].status) => jobs'[j].status = jobs[j].status]_vars

\* C4: result is set exactly when status is completed, and error is set
\* exactly when status is failed.
C4_ResultIffCompleted ==
    \A j \in DOMAIN jobs :
        /\ ResultSet(jobs[j]) <=> jobs[j].status = "completed"
        /\ ErrorSet(jobs[j]) <=> jobs[j].status = "failed"

\* C5: a job whose status is completed or failed has no entry in
\* payment_instances.
C5_TerminalHasNoMonitor ==
    \A j \in DOMAIN jobs :
        Terminal(jobs[j].status) => j \notin payment_instances

\* one job ended by a fulfilment failure and one by executor success, both
\* without an entry
C5_Witness ==
    \E j, k \in DOMAIN jobs :
        /\ jobs[j].status = "failed"
        /\ jobs[j].error.msg \in FulfilErrors
        /\ jobs[k].status = "completed"
        /\ payment_instances = {}

\* C6: when the provider fails to create the payment demand, start_job
\* answers with an error and leaves jobs and payment_instances as they were.
C6_DemandFailureLeavesNoState ==
    [][(event'.op = "start_job" /\ event'.call = "create_failed") =>
          /\ event'.kind \in {"http400", "http500"}
          /\ jobs' = jobs
          /\ payment_instances' = payment_instances]_vars

\* a demand failure answered while another job is already stored
C6_Witness ==
    /\ event.op = "start_job"
    /\ event.call = "create_failed"
    /\ event.kind = "http500"
    /\ event.job \notin DOMAIN jobs
    /\ DOMAIN jobs # {}
    /\ payment_instances # {}

TooShort(v) == ~v.present \/ ~v.has_text \/ Len(strip(v.text)) < 5

\* C7: a start_job request whose input is missing, empty or shorter than 5
\* characters after stripping is answered with a validation error, calls no
\* provider and creates no job record.
C7_ShortInputRejected ==
    [][(event'.op \in {"start_job", "start_job_call"}
          /\ TooShort(event'.input)) =>
          /\ event'.kind = "ValidationError"
          /\ event'.call = "none"
          /\ UNCHANGED <<jobs, payment_instances, watching, next_id, starting,
                         checkCalls, fulfilCalls>>]_vars

\* a text of six characters, four after stripping, is rejected while a job
\* is stored
C7_Witness ==
    /\ event.op = "start_job"
    /\ event.kind = "ValidationError"
    /\ event.input = PaddedShortText
    /\ DOMAIN jobs # {}

\* C8: right after start_job answers successfully the new record is
\* awaiting_payment / pending, carries the reference the provider returned,
\* no result and no error, and the job has an entry in payment_instances.
C8_FreshJobAwaitsPayment ==
    (event.op = "start_job" /\ event.kind = "ok") =>
        /\ event.job \in DOMAIN jobs
        /\ jobs[event.job].status = "awaiting_payment"
        /\ jobs[event.job].payment_status = "pending"
        /\ jobs[event.job].blockchain_identifier = event.ref
        /\ ~ResultSet(jobs[event.job])
        /\ ~ErrorSet(jobs[event.job])
        /\ event.job \in payment_instances

\* the second job is created after the first one has completed
C8_Witness ==
    /\ event.op = "start_job"
    /\ event.kind = "ok"
    /\ event.job = 2
    /\ 1 \in DOMAIN jobs
    /\ jobs[1].status = "completed"

\* C9: get_status of an id that is not in jobs answers NotFoundError, calls
\* no provider and changes neither table.
C9_UnknownIdNotFound ==
    [][(event'.op \in {"get_status", "get_status_call"}
          /\ event'.job \notin DOMAIN jobs) =>
          /\ event'.kind = "NotFoundError"
          /\ event'.call = "none"
          /\ UNCHANGED <<jobs, payment_instances, gets, checkCalls,
                         fulfilCalls>>]_vars

\* an unknown id is asked for while another job is stored and monitored
C9_Witness ==
    /\ event.op = "get_status"
    /\ event.kind = "NotFoundError"
    /\ event.job \notin DOMAIN jobs
    /\ payment_instances # {}

\* what a response would hold if it returned the stored result
StoredResult(rec) ==
    IF ResultSet(rec) THEN [present |-> TRUE, val |-> rec.result.val]
    ELSE NoView

\* C10: when the live payment-status query of get_status fails, the inquiry
\* still succeeds: payment_status is unknown (ValueError) or error (any other
\* exception), and the job's status, result and error are returned as stored.
C10_FailedQueryReturnsStoredView ==
    (event.op = "get_status" /\ event.call \in {"ValueError", "Exception"}) =>
        /\ event.kind = "ok"
        /\ event.payment_status =
              (IF event.call = "ValueError" THEN "unknown" ELSE "error")
        /\ event.payment_status = jobs[event.job].payment_status
        /\ event.status = jobs[event.job].status
        /\ event.result = StoredResult(jobs[event.job])
        /\ event.error = jobs[event.job].error

\* C11: in every get_status response the result field is populated only if
\* the status field of that response is completed.
C11_ResultOnlyWhenCompleted ==
    (event.op = "get_status" /\ event.kind = "ok" /\ event.result.present) =>
        event.status = "completed"

\* C12: after one confirmation signal for a job, an executor return of text r
\* and a successful fulfilment, get_status of the job answers completed with
\* result r.
C12_CompletedJobReturnsResult ==
    \A j \in DOMAIN jobs :
        (/\ event.op = "get_status"
         /\ event.kind = "ok"
         /\ event.job = j
         /\ signals[j] = 1
         /\ execCalls[j] = 1
         /\ fulfilOk[j] # {}) =>
            /\ event.status = "completed"
            /\ \E f \in fulfilOk[j] :
                  event.result = [present |-> TRUE, val |-> f.payload]

\* C13: after a confirmation signal for a job whose executor fails with
\* message m, get_status answers failed together with error m, and the job
\* has no entry in payment_instances.
C13_FailedJobReturnsError ==
    \A j \in DOMAIN jobs :
        (/\ event.op = "get_status"
         /\ event.kind = "ok"
         /\ event.job = j
         /\ signals[j] = 1
         /\ execCalls[j] = 1
         /\ fulfilCalls[j] = 0
         /\ jobs[j].status = "failed"
         /\ jobs[j].error.msg \in ExecErrors) =>
            /\ event.status = "failed"
            /\ event.error = jobs[j].error
            /\ j \notin payment_instances

\* C14: a failed job carries a non-empty error string and a completed job a
\* non-empty result.
C14_NonEmptyOutcome ==
    \A j \in DOMAIN jobs :
        /\ jobs[j].status = "failed" =>
              (jobs[j].error.present /\ jobs[j].error.msg # "")
        /\ jobs[j].status = "completed" =>
              (ResultSet(jobs[j]) /\ jobs[j].result.val # "")

\* C15: the executor is called for a job with that job's stored input,
\* complete_payment with that job's blockchain identifier, a completed job
\* holds a result its own handler passed to complete_payment, and a handler
\* step of one job changes neither the record nor the Payment entry of
\* another job.
C15_JobsDoNotCrossContaminate ==
    [][\A a \in DOMAIN jobs' :
          /\ execInputs'[a] \subseteq {jobs'[a].input_data}
          /\ \A f \in fulfilLog'[a] :
                f.payment_id = jobs'[a].blockchain_identifier
          /\ jobs'[a].status = "completed" =>
                \E f \in fulfilOk'[a] : f.payload = jobs'[a].result.val
          /\ (event'.op = "handle_payment_status" /\ event'.job = a) =>
                \A b \in DOMAIN jobs \ {a} :
                    /\ jobs'[b] = jobs[b]
                    /\ (b \in payment_instances') = (b \in payment_instances)
      ]_vars

\* two jobs with distinct inputs both completed, each with its own result
C15_Witness ==
    /\ DOMAIN jobs = {1, 2}
    /\ jobs[1].status = "completed"
    /\ jobs[2].status = "completed"
    /\ jobs[1].input_data # jobs[2].input_data
    /\ jobs[1].result # jobs[2].result
    /\ event.op = "handle_payment_status"

\* C16: once a confirmation signal has been delivered for a job, the job
\* eventually is completed or failed and has no entry in payment_instances,
\* provided every complete_payment call returns or raises.
C16_ConfirmedJobTerminates ==
    \A j \in JobIds :
        (signals[j] > 0) ~>
            (/\ j \in DOMAIN jobs
             /\ Terminal(jobs[j].status)
             /\ j \notin payment_instances)

\* a job that went through running and a complete_payment call and ended
C16_Witness ==
    \E j \in DOMAIN jobs :
        /\ signals[j] > 0
        /\ fulfilCalls[j] > 0
        /\ Terminal(jobs[j].status)
        /\ j \notin payment_instances
        /\ handlers = {}

\* C17: a confirmation signal for a job that is already completed or failed
\* and has no entry in payment_instances is discarded: it invokes neither the
\* executor nor complete_payment and leaves the job record as it was.
C17_LateSignalDiscarded ==
    [][\A j \in DOMAIN jobs :
          (/\ signals'[j] > signals[j]
           /\ Terminal(jobs[j].status)
           /\ j \notin payment_instances) =>
              /\ execCalls' = execCalls
              /\ fulfilCalls' = fulfilCalls
              /\ jobs'[j] = jobs[j]]_vars

\* C18: for one job, no executor invocation starts once the job is completed
\* or failed, every executor invocation leaves the job running or ended, and
\* no job is completed or failed without an executor invocation.
C18_RunningThenExecutorThenTerminal ==
    [][\A j \in DOMAIN jobs' :
          /\ execCalls'[j] > execCalls[j] =>
                /\ j \in DOMAIN jobs
                /\ ~Terminal(jobs[j].status)
                /\ jobs'[j].status # "awaiting_payment"
          /\ Terminal(jobs'[j].status) => execCalls'[j] >= 1]_vars

\* C19: a completed job has had a successful complete_payment call for its
\* own blockchain identifier carrying its result; and when complete_payment
\* raises, the job is failed with the error recorded and no result stored.
C19_CompletedOnlyAfterFulfil ==
    [][\A j \in DOMAIN jobs' :
          /\ jobs'[j].status = "completed" =>
                \E f \in fulfilOk'[j] :
                    /\ f.payment_id = jobs'[j].blockchain_identifier
                    /\ f.payload = jobs'[j].result.val
          /\ (/\ event'.op = "handle_payment_status"
              /\ event'.job = j
              /\ event'.kind = "failed"
              /\ handlers' # handlers) =>
                /\ jobs'[j].status = "failed"
                /\ jobs'[j].error.present
                /\ jobs'[j].error.msg \in FulfilErrors
                /\ ~ResultSet(jobs'[j])]_vars

\* C20: a stored job record is never removed, and its blockchain identifier,
\* input and purchaser identifier never change.
C20_CreationFieldsImmutable ==
    [][\A j \in DOMAIN jobs :
          /\ j \in DOMAIN jobs'
          /\ jobs'[j].blockchain_identifier = jobs[j].blockchain_identifier
          /\ jobs'[j].input_data = jobs[j].input_data
          /\ jobs'[j].identifier_from_purchaser =
                jobs[j].identifier_from_purchaser]_vars

\* the first job has completed, a second job was created afterwards and a
\* live status query has been answered
C20_Witness ==
    /\ DOMAIN jobs = {1, 2}
    /\ jobs[1].status = "completed"
    /\ jobs[1].input_data = PaddedText
    /\ jobs[2].input_data = ExactText
    /\ jobs[1].blockchain_identifier # jobs[2].blockchain_identifier
    /\ event.op = "get_status"
    /\ event.call = "checked"

\* a step of get_status: the call up to line 242 or the rest from line 242
GetStatusStep == event'.op \in {"get_status", "get_status_call"}

\* C21: get_status changes nothing but payment_status of the queried job, and
\* only in a call that found the job in payment_instances: status, result,
\* error and every other record stay, and a call for a job without an entry
\* sends no provider query and leaves the whole state as it was.
C21_GetStatusWritesOnlyPaymentStatus ==
    [][GetStatusStep =>
          LET q == event'.job IN
          /\ DOMAIN jobs' = DOMAIN jobs
          /\ \A j \in DOMAIN jobs :
                /\ j # q => jobs'[j] = jobs[j]
                /\ jobs'[j] = [jobs[j] EXCEPT
                                 !.payment_status = jobs'[j].payment_status]
          /\ UNCHANGED <<payment_instances, watching, next_id, starting,
                         handlers, signals, execCalls, fulfilCalls,
                         execInputs, fulfilLog, fulfilOk>>
          /\ checkCalls' > checkCalls =>
                (q \in payment_instances /\ gets'[q] = gets[q] + 1)
          /\ jobs' # jobs => gets'[q] = gets[q] - 1
          /\ (event'.op = "get_status" /\ event'.call = "none") =>
                UNCHANGED <<jobs, gets, checkCalls>>]_vars

\* a query of a job without an entry has just been answered, after a live
\* query of another job wrote that job's payment_status
C21_Witness ==
    /\ event.op = "get_status"
    /\ event.call = "none"
    /\ event.job \in DOMAIN jobs
    /\ event.job \notin payment_instances
    /\ \E k \in DOMAIN jobs :
          /\ k # event.job
          /\ jobs[k].payment_status \in ProviderStatuses \cup {"unknown", "error"}
          /\ jobs[k].status = "awaiting_payment"

\* C22: a job for which no confirmation signal has been delivered stays
\* awaiting_payment with its payment_instances entry, whatever get_status
\* calls (also failing ones) and operations on other jobs take place.
C22_NoTimeoutOnAwaitingPayment ==
    \A j \in DOMAIN jobs :
        signals[j] = 0 =>
            /\ jobs[j].status = "awaiting_payment"
            /\ j \in payment_instances

\* an unconfirmed job whose live query has just failed, next to a job that
\* was confirmed and has ended
C22_Witness ==
    /\ event.op = "get_status"
    /\ event.call \in {"ValueError", "Exception"}
    /\ event.job \in DOMAIN jobs
    /\ signals[event.job] = 0
    /\ jobs[event.job].payment_status \in {"unknown", "error"}
    /\ \E k \in DOMAIN jobs : Terminal(jobs[k].status)

\* a step in which a handle_payment_status run ends
HandlerEnds ==
    /\ event'.op = "handle_payment_status"
    /\ event'.kind \in {"completed", "failed"}

\* C23: the stop-and-remove step of a handler never raises, and for a job
\* whose payment_instances entry is already gone it changes nothing: the
\* entry table stays as it is and a run whose complete_payment returned still
\* ends completed.
C23_StopMonitorIdempotent ==
    [][HandlerEnds =>
          LET j == event'.job IN
          /\ event'.cleanup = "ok"
          /\ j \notin payment_instances =>
                /\ payment_instances' = payment_instances
                /\ watching' = watching
                /\ (handlers' # handlers /\ fulfilOk' # fulfilOk) =>
                      jobs'[j].status = "completed"]_vars

\* two handler runs of one job have ended one after the other, the second
\* after the first had removed the entry
C23_Witness ==
    /\ event.op = "handle_payment_status"
    /\ event.kind = "completed"
    /\ event.cleanup = "ok"
    /\ fulfilCalls[event.job] = 2
    /\ \A h \in handlers : h.job # event.job
    /\ event.job \notin payment_instances

\* C24: a job whose status is completed has payment_status "completed"; a
\* get_status call that sent its live query before the handler ended and
\* resumes afterwards does not overwrite it.
C24_CompletedHasCompletedPayment ==
    \A j \in DOMAIN jobs :
        jobs[j].status = "completed" => jobs[j].payment_status = "completed"

\* C25: complete_payment is called at most once for a job's blockchain
\* identifier, however many confirmation signals arrive and whenever.
C25_FulfilAtMostOnce ==
    \A j \in JobIds : fulfilCalls[j] <= 1

\* C26: a start_job call that answers with an error leaves jobs and
\* payment_instances as they were and registers no callback.
C26_FailedStartLeavesNoState ==
    [][(event'.op = "start_job" /\ event'.kind # "ok") =>
          /\ jobs' = jobs
          /\ payment_instances' = payment_instances
          /\ watching' = watching]_vars

\* C27: the result get_status returns for a completed job is the payload of
\* a complete_payment call that succeeded for that job, whether the executor
\* returned an object with a raw attribute or a plain string.
C27_ReturnedResultIsFulfilPayload ==
    (/\ event.op = "get_status"
     /\ event.kind = "ok"
     /\ event.status = "completed") =>
        /\ event.result.present
        /\ \E f \in fulfilOk[event.job] : f.payload = event.result.val

====
